---- MODULE Spec2Model ----
(***************************************************************************)
(* Beacon ingress (keeganatra/rhga4-new): CORS admission, payload          *)
(* coercion and validation, and the forwarder to the Zapier webhook.       *)
(*                                                                         *)
(* The repository holds three variants of the server:                      *)
(*   "index"  src/index.js              (two cors middlewares in a row)    *)
(*   "partA"  src/unnamed/part_000:1-180   (hostFromOrigin)                *)
(*   "partB"  src/unnamed/part_000:181-330 (URL based, no body coercion)   *)
(* The model runs one of them, chosen in Init.  Module-level bindings are  *)
(* read as the variants evidently intend them: a repeated `const` binds    *)
(* the configuration value, and `crypto` (used for the log id only) is the *)
(* node module as required in part_000.                                    *)
(*                                                                         *)
(* JavaScript strings that the code inspects character by character        *)
(* (origins, domains) are sequences of one-character strings.              *)
(***************************************************************************)
EXTENDS Naturals, Integers, Sequences, FiniteSets, TLC

(***************************************************************************)
(* String primitives of the JavaScript runtime used by the code.           *)
(***************************************************************************)
LowerLetters == <<"a","b","c","d","e","f","g","h","i","j","k","l","m","n","o","p","q","r","s","t","u","v","w","x","y","z">>
UpperLetters == <<"A","B","C","D","E","F","G","H","I","J","K","L","M","N","O","P","Q","R","S","T","U","V","W","X","Y","Z">>
DigitChars == {"0","1","2","3","4","5","6","7","8","9"}

\* A primitive works on the value of its argument: `v \in {s}` evaluates s
\* once and binds its value, as the runtime does for a call argument.
Range(s) == UNION { { v[i] : i \in DOMAIN v } : v \in {s} }

\* String.prototype.toLowerCase, one character
LowerChar(c) ==
  IF \E i \in DOMAIN UpperLetters : UpperLetters[i] = c
  THEN LowerLetters[CHOOSE i \in DOMAIN UpperLetters : UpperLetters[i] = c]
  ELSE c

\* String.prototype.toLowerCase
ToLowerCase(s) == CHOOSE r \in { [i \in DOMAIN v |-> LowerChar(v[i])] : v \in {s} } : TRUE

\* the characters from position i on (s.slice(i - 1) in JavaScript terms)
Drop(s, n) == CHOOSE r \in { SubSeq(v, n + 1, Len(v)) : v \in {s} } : TRUE

\* String.prototype.trim (the only whitespace in the inputs is the space)
RECURSIVE TrimLeft(_)
TrimLeft(s) ==
  CHOOSE r \in { (IF v # <<>> /\ Head(v) = " " THEN TrimLeft(Tail(v)) ELSE v) : v \in {s} } : TRUE

RECURSIVE TrimRight(_)
TrimRight(s) ==
  CHOOSE r \in { (IF v # <<>> /\ v[Len(v)] = " "
                  THEN TrimRight(SubSeq(v, 1, Len(v) - 1)) ELSE v) : v \in {s} } : TRUE

Trim(s) == TrimRight(TrimLeft(s))

\* String.prototype.startsWith / endsWith
StartsWith(s, p) == \E v \in {s} : Len(p) <= Len(v) /\ SubSeq(v, 1, Len(p)) = p

EndsWith(s, suf) ==
  \E v \in {s} : Len(suf) <= Len(v) /\ SubSeq(v, Len(v) - Len(suf) + 1, Len(v)) = suf

\* index of the first character of s that is in cs, 0 if there is none
FirstIndexOf(s, cs) ==
  CHOOSE r \in
    { (IF \E i \in DOMAIN v : v[i] \in cs
       THEN CHOOSE i \in DOMAIN v : v[i] \in cs /\ \A j \in 1..(i - 1) : v[j] \notin cs
       ELSE 0) : v \in {s} } : TRUE

\* index of the last occurrence of c in s, 0 if there is none
LastIndexOf(s, c) ==
  CHOOSE r \in
    { (IF \E i \in DOMAIN v : v[i] = c
       THEN CHOOSE i \in DOMAIN v : v[i] = c /\ \A j \in (i + 1)..Len(v) : v[j] # c
       ELSE 0) : v \in {s} } : TRUE

\* s.split(c)[0]
SplitFirst(s, c) ==
  CHOOSE r \in
    { (IF FirstIndexOf(v, {c}) = 0 THEN v ELSE SubSeq(v, 1, FirstIndexOf(v, {c}) - 1))
        : v \in {s} } : TRUE

\* s.replace(/^https?:\/\//, '')
StripScheme(s) ==
  CHOOSE r \in
    { (IF StartsWith(v, <<"h","t","t","p",":","/","/">>) THEN Drop(v, 7)
       ELSE IF StartsWith(v, <<"h","t","t","p","s",":","/","/">>) THEN Drop(v, 8)
       ELSE v) : v \in {s} } : TRUE

\* a || b on strings: the empty string is falsy
OrElse(a, b) == CHOOSE r \in { (IF v # <<>> THEN v ELSE b) : v \in {a} } : TRUE

(***************************************************************************)
(* An Origin header (or any optional string) is a record: absent, or       *)
(* present with its characters.                                            *)
(***************************************************************************)
NoOrigin == [present |-> FALSE, s |-> <<>>]
Present(str) == [present |-> TRUE, s |-> str]

\* !origin : undefined and the empty string are falsy
Falsy(o) == ~o.present \/ o.s = <<>>

\* hostFromOrigin, part_000:38-47
hostFromOrigin(orig) ==
  IF Falsy(orig) THEN <<>>
  ELSE LET s0 == ToLowerCase(Trim(orig.s))
           s1 == StripScheme(s0)
           s2 == SplitFirst(s1, "/")
           s3 == SplitFirst(s2, "?")
           s4 == SplitFirst(s3, "#")
           s5 == SplitFirst(s4, ":")
       IN  s5

\* getHostnameFromOrigin, index.js:60-70
getHostnameFromOrigin(orig) ==
  IF Falsy(orig) THEN <<>>
  ELSE LET s0 == ToLowerCase(Trim(orig.s))
           s1 == StripScheme(s0)
           s2 == OrElse(SplitFirst(s1, "/"), s1)
           s3 == OrElse(SplitFirst(s2, ":"), s2)
       IN  s3

(***************************************************************************)
(* new URL(x).hostname, as the WHATWG URL parser of node computes it for   *)
(* the inputs of the model: [ok |-> FALSE] is the TypeError it throws.     *)
(***************************************************************************)
SchemeChars == Range(LowerLetters) \cup DigitChars \cup {"+", "-", "."}
ForbiddenHostChars == {" ", "#", "/", ":", "<", ">", "?", "@", "[", "\\", "]", "^", "|", "%"}
InvalidURL == [ok |-> FALSE, hostname |-> <<>>]

\* the host of an authority "userinfo@host:port"
URLAuthorityHost(auth, special) ==
  LET at       == LastIndexOf(auth, "@")
      hostport == Drop(auth, at)
      colon    == FirstIndexOf(hostport, {":"})
      host     == IF colon = 0 THEN hostport ELSE SubSeq(hostport, 1, colon - 1)
      port     == IF colon = 0 THEN <<>> ELSE Drop(hostport, colon)
  IN  IF Range(port) \subseteq DigitChars
         /\ Range(host) \cap ForbiddenHostChars = {}
         /\ (special => host # <<>>)
      THEN [ok |-> TRUE, hostname |-> ToLowerCase(host)]
      ELSE InvalidURL

RECURSIVE SkipSlashes(_)
SkipSlashes(s) ==
  CHOOSE r \in
    { (IF v # <<>> /\ Head(v) \in {"/", "\\"} THEN SkipSlashes(Tail(v)) ELSE v)
        : v \in {s} } : TRUE

URLHostname(str) ==
  LET s      == Trim(str)
      colon  == FirstIndexOf(s, {":"})
      scheme == ToLowerCase(SubSeq(s, 1, colon - 1))
      rest   == Drop(s, colon)
  IN  IF colon <= 1 \/ scheme[1] \notin Range(LowerLetters)
         \/ ~(Range(scheme) \subseteq SchemeChars)
      THEN InvalidURL
      ELSE IF scheme \in {<<"h","t","t","p">>, <<"h","t","t","p","s">>}
      THEN LET after == SkipSlashes(rest)
               stop  == FirstIndexOf(after, {"/", "\\", "?", "#"})
               auth  == IF stop = 0 THEN after ELSE SubSeq(after, 1, stop - 1)
           IN  URLAuthorityHost(auth, TRUE)
      ELSE IF StartsWith(rest, <<"/","/">>)
      THEN LET after == Drop(rest, 2)
               stop  == FirstIndexOf(after, {"/", "?", "#"})
               auth  == IF stop = 0 THEN after ELSE SubSeq(after, 1, stop - 1)
           IN  URLAuthorityHost(auth, FALSE)
      ELSE [ok |-> TRUE, hostname |-> <<>>]

(***************************************************************************)
(* Origin admission: the origin callbacks handed to cors().  TRUE is       *)
(* cb(null, true); FALSE is cb(new Error(...)).                            *)
(***************************************************************************)
\* hostname === d || hostname.endsWith('.' + d)
DomainMatch(hostname, d) == hostname = d \/ EndsWith(hostname, <<".">> \o d)

\* index.js:9-32, the first cors middleware (root domain only, URL parser)
corsFirst(origin, root) ==
  IF Falsy(origin) THEN TRUE
  ELSE LET u == URLHostname(origin.s)
       IN  u.ok /\ DomainMatch(u.hostname, root)

\* index.js:72-97, the second cors middleware
corsIndex(origin, root, extras) ==
  IF Falsy(origin) THEN TRUE
  ELSE LET hostname     == getHostnameFromOrigin(origin)
           baseAllowed  == DomainMatch(hostname, root)
           extraAllowed == \E i \in DOMAIN extras :
                              DomainMatch(hostname, getHostnameFromOrigin(Present(extras[i])))
       IN  baseAllowed \/ extraAllowed

\* part_000:49-68
corsPartANoShortcut(origin, root, extras) ==
  LET host    == hostFromOrigin(origin)
      baseOK  == DomainMatch(host, root)
      extraOK == \E i \in DOMAIN extras :
                    DomainMatch(host, hostFromOrigin(Present(extras[i])))
  IN  baseOK \/ extraOK

corsPartA(origin, root, extras) ==
  IF Falsy(origin) THEN TRUE
  ELSE LET host    == hostFromOrigin(origin)
           baseOK  == DomainMatch(host, root)
           extraOK == \E i \in DOMAIN extras :
                         DomainMatch(host, hostFromOrigin(Present(extras[i])))
       IN  baseOK \/ extraOK

\* part_000:205-234
corsPartB(origin, root, extras) ==
  IF Falsy(origin) THEN TRUE
  ELSE LET u == URLHostname(origin.s)
           baseAllowed  == DomainMatch(u.hostname, root)
           extraAllowed == \E i \in DOMAIN extras :
                              LET e == URLHostname(extras[i])
                                  h == IF e.ok THEN OrElse(e.hostname, extras[i]) ELSE extras[i]
                              IN  DomainMatch(u.hostname, h)
       IN  u.ok /\ (baseAllowed \/ extraAllowed)

(***************************************************************************)
(* JavaScript values of request bodies and payloads.  A nested object is   *)
(* known by the length of its JSON text only (ObjOfSize); an array by its  *)
(* length and the indices that still hold an element.                      *)
(***************************************************************************)
MaxArrayLen == 2

Undefined == [t |-> "undefined"]
Null == [t |-> "null"]
Bool(b) == [t |-> "boolean", b |-> b]
Num(n) == [t |-> "number", n |-> n]
Str(s) == [t |-> "string", s |-> s]
Buf(s) == [t |-> "buffer", s |-> s]
Obj(m) == [t |-> "object", m |-> m]
ObjOfSize(n) == [t |-> "nested", size |-> n]
Arr(n, idx) == [t |-> "array", len |-> n, idx |-> idx]
EmptyObject == Obj(<<>>)

\* typeof v
TypeOf(v) ==
  CASE v.t = "undefined" -> "undefined"
    [] v.t = "boolean"   -> "boolean"
    [] v.t = "number"    -> "number"
    [] v.t = "string"    -> "string"
    [] OTHER             -> "object"

\* ToBoolean(v)
Truthy(v) ==
  CASE v.t \in {"undefined", "null"} -> FALSE
    [] v.t = "boolean" -> v.b
    [] v.t = "number"  -> v.n # 0
    [] v.t = "string"  -> v.s # ""
    [] OTHER           -> TRUE

IndexKey == <<"0", "1", "2", "3", "4", "5", "6", "7", "8", "9">>

\* Object.keys(v) for a truthy v
ObjectKeys(v) ==
  CASE v.t = "object" -> DOMAIN v.m
    [] v.t = "array"  -> { IndexKey[i + 1] : i \in v.idx }
    [] v.t = "string" -> { IndexKey[i] : i \in 1..Len(v.s) }
    [] OTHER          -> {}

\* k in p, for p of type object
HasKey(p, k) == k \in ObjectKeys(p)

\* p[k]
Get(p, k) == IF p.t = "object" /\ k \in DOMAIN p.m THEN p.m[k] ELSE Undefined

\* JSON.stringify(v).length, for the values event_params takes
JSONLength(v) ==
  CASE v.t = "nested" -> v.size
    [] v.t = "object" -> 2
    [] v.t = "array"  -> 2
    [] OTHER          -> 0

(***************************************************************************)
(* validatePayload: index.js:115-139, part_000:85-110, part_000:245-272    *)
(***************************************************************************)
allowedTop ==
  { "client_id", "session_id", "atraid", "atrauid",
    "timestamp", "page_url", "page_path", "page_title",
    "referrer_url", "referrer_host", "language", "screen_resolution",
    "utm_source_first", "utm_source_last", "utm_medium_first", "utm_medium_last",
    "utm_campaign_first", "utm_campaign_last", "utm_term_first", "utm_term_last",
    "utm_content_first", "utm_content_last",
    "gclid", "gbraid", "wbraid", "fbclid", "msclkid", "ttclid", "li_fat_id", "twclid",
    "ciid", "clickid", "adset_name",
    "channel_first_touch", "channel_last_touch",
    "event_type", "event_params" }

NoError == "null"

\* Object.keys(p).forEach(k => { if (!allowedTop.has(k)) delete p[k]; })
PruneKeepAll(p) == p

PruneEverything(p) ==
  CASE p.t = "object" -> Obj(<<>>)
    [] p.t = "array"  -> Arr(p.len, {})
    [] OTHER          -> p

\* deleting while iterating and missing keys: one key goes per call
PruneOnePerCall(p) ==
  IF p.t = "object" /\ DOMAIN p.m \ allowedTop # {}
  THEN Obj([k \in DOMAIN p.m \ {CHOOSE j \in DOMAIN p.m \ allowedTop : TRUE} |-> p.m[k]])
  ELSE p

Prune(p) ==
  CASE p.t = "object" -> Obj([k \in DOMAIN p.m \cap allowedTop |-> p.m[k]])
    [] p.t = "array"  -> Arr(p.len, {})
    [] OTHER          -> p

\* 'session_id' in p && p.session_id !== '' && typeof p.session_id !== 'number'
sessionIdFalsyPasses(p) ==
  HasKey(p, "session_id") /\ Truthy(Get(p, "session_id"))
    /\ TypeOf(Get(p, "session_id")) # "number"

sessionIdRejected(p) ==
  HasKey(p, "session_id") /\ Get(p, "session_id") # Str("")
    /\ TypeOf(Get(p, "session_id")) # "number"

\* p.event_params && JSON.stringify(p.event_params).length > 8192
eventParamsTooLargeFrom8192(ep) == Truthy(ep) /\ JSONLength(ep) >= 8192

eventParamsTooLarge(ep) == Truthy(ep) /\ JSONLength(ep) > 8192

\* the error string returned (NoError for null) and p as the call leaves it
validatePayload(p) ==
  LET ep == Get(p, "event_params")
  IN  IF ~Truthy(p) \/ TypeOf(p) # "object"
      THEN [err |-> "invalid body", p |-> p]
      ELSE IF sessionIdRejected(p)
      THEN [err |-> "session_id must be number or empty", p |-> p]
      ELSE IF HasKey(p, "event_params") /\ Truthy(ep) /\ TypeOf(ep) # "object"
      THEN [err |-> "event_params must be object", p |-> p]
      ELSE IF eventParamsTooLarge(ep)
      THEN [err |-> "event_params too large", p |-> p]
      ELSE [err |-> NoError, p |-> Prune(p)]

(***************************************************************************)
(* JSON.parse on the text bodies of the model: the value parsed, or        *)
(* [ok |-> FALSE] for the SyntaxError.                                     *)
(***************************************************************************)
PageView == [k \in {"event_type", "client_id"} |->
               IF k = "event_type" THEN Str("page_view") ELSE Str("c1")]

JSONParse(text) ==
  CASE text = "{}"      -> [ok |-> TRUE, v |-> EmptyObject]
    [] text = "null"    -> [ok |-> TRUE, v |-> Null]
    [] text = "123"     -> [ok |-> TRUE, v |-> Num(123)]
    [] text = "true"    -> [ok |-> TRUE, v |-> Bool(TRUE)]
    [] text = "\"abc\"" -> [ok |-> TRUE, v |-> Str("abc")]
    [] text = "[1,2]"   -> [ok |-> TRUE, v |-> Arr(2, {0, 1})]
    [] text = "{\"event_type\":\"page_view\",\"client_id\":\"c1\"}"
                        -> [ok |-> TRUE, v |-> Obj(PageView)]
    [] text = "{\"session_id\":\"not-a-number\"}"
                        -> [ok |-> TRUE, v |-> Obj([k \in {"session_id"} |-> Str("not-a-number")])]
    [] text = "{\"hacked\":1,\"client_id\":\"c1\"}"
                        -> [ok |-> TRUE, v |-> Obj([k \in {"hacked", "client_id"} |->
                                                    IF k = "hacked" THEN Num(1) ELSE Str("c1")])]
    [] OTHER            -> [ok |-> FALSE, v |-> Undefined]

\* try { req.body = JSON.parse(...) } catch { req.body = {} }
ParseOrEmpty(text) == IF JSONParse(text).ok THEN JSONParse(text).v ELSE EmptyObject

\* index.js:165-170, part_000:136-141
Coerce(body) ==
  IF body.t = "string" /\ Len(body.s) > 0 THEN ParseOrEmpty(body.s)
  ELSE IF body.t = "buffer" THEN ParseOrEmpty(body.s)
  ELSE body

(***************************************************************************)
(* The collect handler up to its first await.  The result names the        *)
(* response sent (NoResponse when the handler goes on to forwardToZapier), *)
(* req.body as coercion left it, req.body and payload as the handler       *)
(* leaves them, and the payload as it was handed to validatePayload        *)
(* (Undefined when validation was not reached).                            *)
(***************************************************************************)
NoStatus == 0 - 1
NoResponse == [status |-> 0, error |-> "", zstatus |-> NoStatus]
Response(st, e, z) == [status |-> st, error |-> e, zstatus |-> z]

\* index.js:181-188, part_000:151-158, part_000:305-312
validateThenForwardLax(body, payload) ==
  LET v == validatePayload(payload)
  IN  IF v.err \notin {NoError, "event_params must be object"}
      THEN [resp |-> Response(400, v.err, NoStatus), forward |-> FALSE,
            coerced |-> body, body |-> body, payload |-> v.p, validated |-> payload]
      ELSE [resp |-> NoResponse, forward |-> TRUE,
            coerced |-> body, body |-> IF body = payload THEN v.p ELSE body,
            payload |-> v.p, validated |-> payload]

\* the validation error is logged but never answered
validateThenForwardSilent(body, payload) ==
  LET v == validatePayload(payload)
  IN  IF v.err # NoError
      THEN [resp |-> NoResponse, forward |-> FALSE,
            coerced |-> body, body |-> body, payload |-> v.p, validated |-> payload]
      ELSE [resp |-> NoResponse, forward |-> TRUE,
            coerced |-> body, body |-> IF body = payload THEN v.p ELSE body,
            payload |-> v.p, validated |-> payload]

validateThenForward(body, payload) ==
  LET v == validatePayload(payload)
  IN  IF v.err # NoError
      THEN [resp |-> Response(400, v.err, NoStatus), forward |-> FALSE,
            coerced |-> body, body |-> body, payload |-> v.p, validated |-> payload]
      ELSE [resp |-> NoResponse, forward |-> TRUE,
            coerced |-> body, body |-> IF body = payload THEN v.p ELSE body,
            payload |-> v.p, validated |-> payload]

\* index.js:162-185, part_000:133-155
collectCoercing(reqBody) ==
  LET body    == Coerce(reqBody)
      payload == IF Truthy(body) THEN body ELSE EmptyObject
  IN  IF ~Truthy(payload) \/ Cardinality(ObjectKeys(payload)) = 0
      THEN [resp |-> Response(400, "empty body", NoStatus), forward |-> FALSE,
            coerced |-> body, body |-> body, payload |-> payload, validated |-> Undefined]
      ELSE validateThenForward(body, payload)

\* part_000:298-309
collectPartB(reqBody) == validateThenForward(reqBody, reqBody)

collect(v, reqBody) ==
  IF v = "partB" THEN collectPartB(reqBody) ELSE collectCoercing(reqBody)

(***************************************************************************)
(* The Zapier client: axios with timeout 5000 and validateStatus.          *)
(* A downstream event is what the webhook does with one POST: a response   *)
(* with a status after ms milliseconds, or a connection error.             *)
(***************************************************************************)
zapierTimeout == 5000

\* validateStatus: s => s >= 200 && s < 500
validateStatusBelow400(s) == s >= 200 /\ s < 400

validateStatus(s) == s >= 200 /\ s < 500

Resolved(st) == [ok |-> TRUE, status |-> st, why |-> "response"]
Rejected(st, why) == [ok |-> FALSE, status |-> st, why |-> why]
Pending == [ok |-> FALSE, status |-> NoStatus, why |-> "pending"]

\* zapier.post(...) settles: resolved with the status, or rejected
zapierPost(ev) ==
  IF ev.kind = "connerr" THEN Rejected(NoStatus, "connerr")
  ELSE IF ev.ms > zapierTimeout THEN Rejected(NoStatus, "timeout")
  ELSE IF validateStatus(ev.status) THEN Resolved(ev.status)
  ELSE Rejected(ev.status, "status")

\* the try block of forwardToZapier returns res.status (index.js:151-153)
firstAttemptReturnsAnyStatus(res) == res.why # "timeout" /\ res.why # "connerr"

firstAttemptReturns(res) == res.ok /\ ~(res.status >= 500)

\* the catch block returns res2.status (index.js:155-157)
retryReturns(res2) == res2.ok /\ ~(res2.status >= 500)

\* what forwardToZapier gives its caller: a status, or a thrown error
Returned(st) == [raised |-> FALSE, status |-> st]
Raised == [raised |-> TRUE, status |-> NoStatus]
NotForwarded == [raised |-> FALSE, status |-> NoStatus]

\* index.js:187-195: the response for the forwarder's outcome
respondAfterForwardUpTo300(f) ==
  IF f.raised THEN Response(502, "Zapier forwarding failed", NoStatus)
  ELSE IF f.status >= 200 /\ f.status <= 300 THEN Response(204, "", NoStatus)
  ELSE Response(502, "Bad gateway to Zapier", f.status)

respondAfterForward(f) ==
  IF f.raised THEN Response(502, "Zapier forwarding failed", NoStatus)
  ELSE IF f.status >= 200 /\ f.status < 300 THEN Response(204, "", NoStatus)
  ELSE Response(502, "Bad gateway to Zapier", f.status)

(***************************************************************************)
(* Inputs of the model.                                                    *)
(***************************************************************************)
NumReqs == 2
Reqs == 1..NumReqs

Variants == {"index", "partA", "partB"}

DefaultRootDomain == <<"r","o","b","i","n","s","o","n","a","n","d","h","e","n","r","y",".","c","o","m">>
ExampleCom == <<"e","x","a","m","p","l","e",".","c","o","m">>
EvilExampleCom == <<"e","v","i","l","e","x","a","m","p","l","e",".","c","o","m">>
SubExampleCom == <<"S","u","b",".","E","x","a","m","p","l","e",".","c","o","m">>
StagingIo == <<"s","t","a","g","i","n","g",".","i","o">>
XStagingIo == <<"x",".","s","t","a","g","i","n","g",".","i","o">>
WwwDefault == <<"w","w","w",".","r","o","b","i","n","s","o","n","a","n","d","h","e","n","r","y",".","c","o","m">>
EvilIoDot == <<"e","v","i","l",".","i","o",".">>
SchemeHttps == <<"h","t","t","p","s",":","/","/">>
SchemeHttpsUpper == <<"H","T","T","P","S",":","/","/">>
SufPortPathQueryHash == <<":","8","4","4","3","/","p","a","t","h","?","x","=","1","#","y">>
SufQueryRoot == <<"?","x","=",".","e","x","a","m","p","l","e",".","c","o","m">>
ExtraUrlEntry == <<"h","t","t","p","s",":","/","/","S","t","a","g","i","n","g",".","i","o",":","8","0","8","0","/","x">>
ExtraPortEntry == <<":","8","0","8","0">>

\* process.env.ALLOWED_ROOT_DOMAIN || 'robinsonandhenry.com'
RootDomains == {DefaultRootDomain, ExampleCom}

\* process.env.EXTRA_ALLOWED_ORIGINS split on ',', trimmed, empty entries dropped
ExtraLists == { <<>>, <<StagingIo>>, <<ExtraUrlEntry>>, <<SchemeHttps, ExtraPortEntry>> }

OriginPrefixes == { <<>>, SchemeHttps, SchemeHttpsUpper }
OriginHosts == { ExampleCom, EvilExampleCom, SubExampleCom, StagingIo, XStagingIo,
                 WwwDefault, EvilIoDot }
OriginSuffixes == { <<>>, SufPortPathQueryHash, SufQueryRoot }

Origins ==
  {NoOrigin, Present(<<>>)} \cup
  { Present(pre \o h \o suf) : pre \in OriginPrefixes, h \in OriginHosts, suf \in OriginSuffixes }

\* objects as express.json or JSON.parse deliver them
SessionIdValues == {Undefined, Str(""), Str("abc"), Num(5), Bool(TRUE), Null}
EventParamsValues == {Undefined, Null, Str("x"), Num(0), ObjOfSize(2), ObjOfSize(8192), ObjOfSize(8193)}

MkObject(sid, ep, cid, other) ==
  LET keys == (IF sid # Undefined THEN {"session_id"} ELSE {})
              \cup (IF ep # Undefined THEN {"event_params"} ELSE {})
              \cup (IF cid THEN {"client_id"} ELSE {})
              \cup (IF other THEN {"hacked"} ELSE {})
  IN  Obj([k \in keys |->
             CASE k = "session_id"   -> sid
               [] k = "event_params" -> ep
               [] k = "client_id"    -> Str("c1")
               [] OTHER              -> Num(1)])

JsonObjects ==
  { MkObject(sid, Undefined, cid, other) :
      sid \in SessionIdValues, cid \in BOOLEAN, other \in BOOLEAN }
  \cup { MkObject(Undefined, ep, TRUE, other) : ep \in EventParamsValues, other \in BOOLEAN }
  \cup { MkObject(Num(5), ObjOfSize(8193), TRUE, FALSE), MkObject(Str("abc"), Str("x"), FALSE, FALSE),
         Obj(PageView) }

\* express.json({strict: true}) delivers objects and arrays
JsonBodies == JsonObjects \cup { Arr(n, 0..(n - 1)) : n \in 0..MaxArrayLen }

Texts == { "{}", "null", "123", "true", "\"abc\"", "[1,2]", "not json", "",
           "{\"event_type\":\"page_view\",\"client_id\":\"c1\"}",
           "{\"session_id\":\"not-a-number\"}",
           "{\"hacked\":1,\"client_id\":\"c1\"}" }

\* express.text and express.raw deliver a string and a Buffer
TextBodies == { Str(t) : t \in Texts } \cup { Buf(t) : t \in Texts }

\* req.body when no parser took the body: {} (body-parser 1.x) or undefined
UnparsedBodies == {EmptyObject, Undefined}

\* index.js:42-46, part_000:21-25, part_000:202
BodiesOf(v) ==
  IF v = "partB" THEN JsonBodies \cup UnparsedBodies
  ELSE JsonBodies \cup TextBodies \cup UnparsedBodies

\* what the webhook does with one POST
Statuses == {200, 299, 300, 499, 500}
Downstream ==
  { [kind |-> "response", status |-> st, ms |-> ms] : st \in Statuses, ms \in {120, 6000} }
  \cup { [kind |-> "connerr", status |-> NoStatus, ms |-> 0] }

(***************************************************************************)
(* State.  The configuration is read once at start and never written.      *)
(* Everything else is per request.                                         *)
(***************************************************************************)
VARIABLES
  variant,              \* which server file runs
  allowedRootDomain,    \* ALLOWED_ROOT_DOMAIN
  extraAllowedOrigins,  \* EXTRA_ALLOWED_ORIGINS
  webhookUrlSet,        \* ZAPIER_WEBHOOK_URL is a non-empty string
  pc,                   \* where each request is in the middleware chain
  origin,               \* req.headers.origin
  admitted,             \* "pending", "yes", "no": the cors decision
  reqBody,              \* req.body
  handled,              \* the collect handler has run
  coerced,              \* req.body as coercion left it, before validation
  validated,            \* the payload as handed to validatePayload
  payload,              \* the handler's payload
  posts,                \* the bodies of the POSTs sent to the webhook
  res1,                 \* how the first zapier.post settled
  res2,                 \* how the retry settled
  forwarded,            \* what forwardToZapier gave the handler
  response,             \* the HTTP response sent
  valArg,               \* the value first handed to validatePayload, called directly
  valObj,               \* that value as the calls so far left it
  valErrs,              \* what each direct call of validatePayload returned
  normArg,              \* the origin first handed to the normaliser, called directly
  normOuts              \* what each direct call of the normaliser returned

config == <<variant, allowedRootDomain, extraAllowedOrigins, webhookUrlSet>>
requestVars == <<pc, origin, admitted, reqBody, handled, coerced, validated, payload, posts,
                 res1, res2, forwarded, response>>
callVars == <<valArg, valObj, valErrs, normArg, normOuts>>
vars == <<variant, allowedRootDomain, extraAllowedOrigins, webhookUrlSet, pc, origin,
          admitted, reqBody, handled, coerced, validated, payload, posts, res1, res2,
          forwarded, response, valArg, valObj, valErrs, normArg, normOuts>>

\* no request has arrived
NoRequests ==
  /\ pc = [r \in Reqs |-> "idle"]
  /\ origin = [r \in Reqs |-> NoOrigin]
  /\ admitted = [r \in Reqs |-> "pending"]
  /\ reqBody = [r \in Reqs |-> Undefined]
  /\ handled = [r \in Reqs |-> FALSE]
  /\ coerced = [r \in Reqs |-> Undefined]
  /\ validated = [r \in Reqs |-> Undefined]
  /\ payload = [r \in Reqs |-> Undefined]
  /\ posts = [r \in Reqs |-> <<>>]
  /\ res1 = [r \in Reqs |-> Pending]
  /\ res2 = [r \in Reqs |-> Pending]
  /\ forwarded = [r \in Reqs |-> NotForwarded]
  /\ response = [r \in Reqs |-> NoResponse]

\* no function has been called directly
NoCalls ==
  /\ valArg = Undefined
  /\ valObj = Undefined
  /\ valErrs = <<>>
  /\ normArg = NoOrigin
  /\ normOuts = <<>>

Init ==
  /\ variant \in Variants
  /\ allowedRootDomain \in RootDomains
  /\ extraAllowedOrigins \in ExtraLists
  /\ webhookUrlSet \in BOOLEAN
  /\ NoRequests
  /\ NoCalls

\* the order in which each file registers its middleware
\* index.js:9,42,72,162  part_000:21,49,133  part_000:202,205,298
StageAfter(v, stage) ==
  CASE stage = "idle"  -> IF v = "index" THEN "cors1" ELSE "parse"
    [] stage = "cors1" -> "parse"
    [] stage = "parse" -> "cors"
    [] stage = "cors"  -> "collect"

\* cors(): an error from the origin callback goes to next(err), which skips
\* every later middleware and handler; express answers 500
afterCorsIgnoringError(allowed, stage) == stage

afterCors(allowed, stage) == IF allowed THEN stage ELSE "blocked"

CorsError == Response(500, "Not allowed by CORS", NoStatus)

\* a POST to /collect or / arrives
Receive(r, origins) ==
  /\ pc[r] = "idle"
  /\ \E o \in origins : origin' = [origin EXCEPT ![r] = o]
  /\ pc' = [pc EXCEPT ![r] = StageAfter(variant, "idle")]
  /\ UNCHANGED <<config, callVars, admitted, reqBody, handled, coerced, validated, payload, posts,
                 res1, res2, forwarded, response>>

\* index.js:9-32
FirstCors(r) ==
  /\ pc[r] = "cors1"
  /\ LET ok == corsFirst(origin[r], allowedRootDomain)
     IN  /\ pc' = [pc EXCEPT ![r] = afterCors(ok, StageAfter(variant, "cors1"))]
         /\ admitted' = [admitted EXCEPT ![r] = IF ok THEN "pending" ELSE "no"]
         /\ response' = [response EXCEPT ![r] = IF ok THEN NoResponse ELSE CorsError]
  /\ UNCHANGED <<config, callVars, origin, reqBody, handled, coerced, validated, payload, posts,
                 res1, res2, forwarded>>

\* express.json / express.text / express.raw set req.body
BodyParsers(r, bodies) ==
  /\ pc[r] = "parse"
  /\ \E b \in bodies : reqBody' = [reqBody EXCEPT ![r] = b]
  /\ pc' = [pc EXCEPT ![r] = StageAfter(variant, "parse")]
  /\ UNCHANGED <<config, callVars, origin, admitted, handled, coerced, validated, payload, posts,
                 res1, res2, forwarded, response>>

\* the origin callback of the file that runs
corsOrigin(v, o, root, extras) ==
  CASE v = "index" -> corsIndex(o, root, extras)
    [] v = "partA" -> corsPartA(o, root, extras)
    [] v = "partB" -> corsPartB(o, root, extras)

\* index.js:72-97, part_000:49-68, part_000:205-234
Cors(r) ==
  /\ pc[r] = "cors"
  /\ LET ok == corsOrigin(variant, origin[r], allowedRootDomain, extraAllowedOrigins)
     IN  /\ pc' = [pc EXCEPT ![r] = afterCors(ok, StageAfter(variant, "cors"))]
         /\ admitted' = [admitted EXCEPT ![r] = IF ok THEN "yes" ELSE "no"]
         /\ response' = [response EXCEPT ![r] = IF ok THEN NoResponse ELSE CorsError]
  /\ UNCHANGED <<config, callVars, origin, reqBody, handled, coerced, validated, payload, posts,
                 res1, res2, forwarded>>

\* if (!ZAPIER_WEBHOOK_URL) throw new Error('ZAPIER_WEBHOOK_URL not set')
webhookUrlNeverMissing(urlSet) == FALSE

webhookUrlMissing(urlSet) == ~urlSet

\* the collect handler up to its first await: coercion, the empty check,
\* validation, and forwardToZapier up to the first zapier.post
Collect(r) ==
  /\ pc[r] = "collect"
  /\ LET c == collect(variant, reqBody[r])
     IN  /\ reqBody' = [reqBody EXCEPT ![r] = c.body]
         /\ handled' = [handled EXCEPT ![r] = TRUE]
         /\ coerced' = [coerced EXCEPT ![r] = c.coerced]
         /\ payload' = [payload EXCEPT ![r] = c.payload]
         /\ validated' = [validated EXCEPT ![r] = c.validated]
         /\ IF ~c.forward
            THEN /\ response' = [response EXCEPT ![r] = c.resp]
                 /\ pc' = [pc EXCEPT ![r] = "done"]
                 /\ UNCHANGED <<posts, forwarded>>
            ELSE IF webhookUrlMissing(webhookUrlSet)
            THEN /\ forwarded' = [forwarded EXCEPT ![r] = Raised]
                 /\ response' = [response EXCEPT ![r] = respondAfterForward(Raised)]
                 /\ pc' = [pc EXCEPT ![r] = "done"]
                 /\ UNCHANGED posts
            ELSE /\ posts' = [posts EXCEPT ![r] = Append(@, c.payload)]
                 /\ pc' = [pc EXCEPT ![r] = "await1"]
                 /\ UNCHANGED <<forwarded, response>>
  /\ UNCHANGED <<config, callVars, origin, admitted, res1, res2>>

\* the retry posts the payload parameter of its own forwardToZapier call
retryPayloadShared(payloads, r) == payloads[1]

retryPayload(payloads, r) == payloads[r]

\* the first zapier.post settles: return its status, or retry once
FirstAttemptSettles(r, events) ==
  /\ pc[r] = "await1"
  /\ \E ev \in events :
       LET res == zapierPost(ev)
       IN  /\ res1' = [res1 EXCEPT ![r] = res]
           /\ IF firstAttemptReturns(res)
              THEN /\ forwarded' = [forwarded EXCEPT ![r] = Returned(res.status)]
                   /\ response' = [response EXCEPT ![r] = respondAfterForward(Returned(res.status))]
                   /\ pc' = [pc EXCEPT ![r] = "done"]
                   /\ UNCHANGED posts
              ELSE /\ posts' = [posts EXCEPT ![r] = Append(@, retryPayload(payload, r))]
                   /\ pc' = [pc EXCEPT ![r] = "await2"]
                   /\ UNCHANGED <<forwarded, response>>
  /\ UNCHANGED <<config, callVars, origin, admitted, reqBody, handled, coerced, validated, payload,
                 res2>>

\* the retry settles: return its status, or throw to the handler
RetrySettles(r, events) ==
  /\ pc[r] = "await2"
  /\ \E ev \in events :
       LET res == zapierPost(ev)
           f   == IF retryReturns(res) THEN Returned(res.status) ELSE Raised
       IN  /\ res2' = [res2 EXCEPT ![r] = res]
           /\ forwarded' = [forwarded EXCEPT ![r] = f]
           /\ response' = [response EXCEPT ![r] = respondAfterForward(f)]
  /\ pc' = [pc EXCEPT ![r] = "done"]
  /\ UNCHANGED <<config, callVars, origin, admitted, reqBody, handled, coerced, validated, payload,
                 posts, res1>>

\* the requests of Spec: a few origins, every body and every webhook answer
CollectOrigins ==
  { NoOrigin, Present(ExampleCom), Present(SchemeHttps \o ExampleCom),
    Present(SchemeHttps \o EvilExampleCom), Present(SchemeHttps \o WwwDefault),
    Present(SchemeHttps \o XStagingIo) }

\* the requests of AdmissionSpec: every origin, a few bodies
AdmissionBodies == { Obj(PageView), EmptyObject, Str("not json") }

\* one request through the middleware chain of the file that runs
Next ==
  \/ Receive(1, CollectOrigins)
  \/ FirstCors(1)
  \/ BodyParsers(1, BodiesOf(variant))
  \/ Cors(1)
  \/ Collect(1)
  \/ FirstAttemptSettles(1, Downstream)
  \/ RetrySettles(1, Downstream)

Spec == Init /\ [][Next]_vars

NextAdmission ==
  \/ Receive(1, Origins)
  \/ FirstCors(1)
  \/ BodyParsers(1, BodiesOf(variant) \cap AdmissionBodies)
  \/ Cors(1)
  \/ Collect(1)
  \/ FirstAttemptSettles(1, Downstream)
  \/ RetrySettles(1, Downstream)

AdmissionSpec == Init /\ [][NextAdmission]_vars

(***************************************************************************)
(* Properties                                                              *)
(***************************************************************************)
\* the first attempt failed at transport level (connection error or timeout)
TransportFailure(res) == res.why \in {"timeout", "connerr"}

\* C1: for every forwarder invocation with a configured URL, a second POST
\* is issued if and only if the first attempt returned a status >= 500 or
\* failed at transport level; the retry carries the payload of the first
\* POST; and no invocation issues more than two POSTs.
C1_RetryOnlyAfterFailure ==
  \A r \in Reqs :
    /\ Len(posts[r]) <= 2
    /\ Len(posts[r]) = 2 <=>
         (res1[r] # Pending /\ (TransportFailure(res1[r]) \/ res1[r].status >= 500))
    /\ Len(posts[r]) = 2 => posts[r][2] = posts[r][1]

\* a request whose first attempt timed out, retried and answered
C1_Witness ==
  /\ pc[1] = "done"
  /\ res1[1].why = "timeout"
  /\ Len(posts[1]) = 2
  /\ posts[1][1] = Obj(PageView)

\* C2: the forwarder's result is the first attempt's status when that is in
\* [200,500); otherwise the retry's status when that is below 500; otherwise
\* a raised failure and no status.
C2_ForwarderResult ==
  \A r \in Reqs :
    (pc[r] = "done" /\ posts[r] # <<>>) =>
      IF res1[r].status >= 200 /\ res1[r].status < 500
      THEN forwarded[r] = Returned(res1[r].status) /\ Len(posts[r]) = 1
      ELSE IF res2[r].status # NoStatus /\ res2[r].status < 500
      THEN forwarded[r] = Returned(res2[r].status)
      ELSE forwarded[r] = Raised

\* a 500 on the first attempt and a 499 on the retry: the result is 499
C2_Witness ==
  /\ pc[1] = "done"
  /\ res1[1] = Rejected(500, "status")
  /\ res2[1] = Resolved(499)
  /\ forwarded[1] = Returned(499)

\* C3: when the payload passed validation, the response is decided by the
\* forwarder's outcome: a status in [200,300) gives 204 without a body, any
\* other returned status gives 502 carrying that status, a raised failure
\* gives 502 with the generic reason and no downstream detail.
C3_ResponseFromOutcome ==
  \A r \in Reqs :
    (pc[r] = "done" /\ handled[r] /\ validated[r] # Undefined
       /\ validatePayload(validated[r]).err = NoError) =>
      /\ (forwarded[r].raised =>
            response[r] = Response(502, "Zapier forwarding failed", NoStatus))
      /\ (~forwarded[r].raised /\ forwarded[r].status >= 200 /\ forwarded[r].status < 300 =>
            response[r] = Response(204, "", NoStatus))
      /\ (~forwarded[r].raised /\ ~(forwarded[r].status >= 200 /\ forwarded[r].status < 300) =>
            /\ forwarded[r].status # NoStatus
            /\ response[r] = Response(502, "Bad gateway to Zapier", forwarded[r].status))

\* the webhook answered 300 to a valid payload: 502 carrying 300
C3_Witness ==
  /\ pc[1] = "done"
  /\ forwarded[1] = Returned(300)
  /\ response[1] = Response(502, "Bad gateway to Zapier", 300)

\* const payload = req.body || {}
PayloadOf(body) == IF Truthy(body) THEN body ELSE EmptyObject

\* C4: a POST whose body, after coercion, is a mapping with zero keys is
\* answered 400 "empty body" and the forwarder is never called for it.
C4_EmptyBodyRejected ==
  \A r \in Reqs :
    (handled[r] /\ coerced[r] = EmptyObject) =>
      /\ posts[r] = <<>>
      /\ forwarded[r] = NotForwarded
      /\ response[r] = Response(400, "empty body", NoStatus)

\* C5: a POST whose non-empty payload fails validation is answered 400 with
\* exactly the validator's reason and no POST goes to the webhook; the
\* forwarder is called only after validation returned no error.
C5_ValidationErrorRejected ==
  \A r \in Reqs :
    /\ (handled[r] /\ Cardinality(ObjectKeys(PayloadOf(coerced[r]))) > 0
          /\ validatePayload(PayloadOf(coerced[r])).err # NoError) =>
         /\ response[r] = Response(400, validatePayload(PayloadOf(coerced[r])).err, NoStatus)
         /\ posts[r] = <<>>
         /\ forwarded[r] = NotForwarded
    /\ (posts[r] # <<>> \/ forwarded[r] # NotForwarded) =>
         /\ validated[r] # Undefined
         /\ validatePayload(validated[r]).err = NoError

\* {"session_id":"not-a-number"} is answered 400 with the validator's reason
C5_Witness ==
  /\ pc[1] = "done"
  /\ coerced[1] = Obj([k \in {"session_id"} |-> Str("not-a-number")])
  /\ response[1] = Response(400, "session_id must be number or empty", NoStatus)
  /\ posts[1] = <<>>

\* C6: every payload sent to the webhook, on the first attempt and on the
\* retry, has only top-level keys of the allow-list, whatever keys the
\* inbound body carried.
C6_SentKeysAllowed ==
  \A r \in Reqs : \A i \in DOMAIN posts[r] : ObjectKeys(posts[r][i]) \subseteq allowedTop

\* a body with a key outside the allow-list was sent twice without it
C6_Witness ==
  /\ Len(posts[1]) = 2
  /\ "hacked" \in ObjectKeys(validated[1])
  /\ "client_id" \in ObjectKeys(posts[1][2])

\* the cors middleware(s) of the running file have decided on request r
Decided(r) == admitted[r] # "pending"

\* C7: with an empty extra list, a present origin with normalized hostname H
\* is admitted if and only if H equals the root domain D or ends with "." D.
C7_RootDomainRule ==
  \A r \in Reqs :
    (Decided(r) /\ ~Falsy(origin[r]) /\ extraAllowedOrigins = <<>>) =>
      (admitted[r] = "yes" <=> DomainMatch(hostFromOrigin(origin[r]), allowedRootDomain))

\* C8: a request with no Origin header is admitted under every
\* configuration of root domain and extra list.
C8_AbsentOriginAdmitted ==
  \A r \in Reqs :
    ~origin[r].present =>
      /\ admitted[r] # "no"
      /\ pc[r] # "blocked"
      /\ pc[r] \in {"collect", "await1", "await2", "done"} => admitted[r] = "yes"

\* a request without Origin reached the handler although the root domain
\* and the extra list name other hosts
C8_Witness ==
  /\ ~origin[1].present
  /\ admitted[1] = "yes"
  /\ handled[1]
  /\ allowedRootDomain = ExampleCom
  /\ extraAllowedOrigins = <<StagingIo>>

\* C9: a POST whose origin is present and not admitted is blocked before
\* the collect handler: coercion, validation and forwarding never run and
\* no POST goes to the webhook.
C9_DeniedNeverHandled ==
  \A r \in Reqs :
    admitted[r] = "no" =>
      /\ origin[r].present
      /\ pc[r] = "blocked"
      /\ ~handled[r]
      /\ coerced[r] = Undefined /\ validated[r] = Undefined /\ payload[r] = Undefined
      /\ posts[r] = <<>>
      /\ forwarded[r] = NotForwarded
      /\ response[r] = CorsError

\* https://evilexample.com against root domain example.com is blocked
C9_Witness ==
  /\ origin[1] = Present(SchemeHttps \o EvilExampleCom)
  /\ allowedRootDomain = ExampleCom
  /\ admitted[1] = "no"
  /\ pc[1] = "blocked"

\* C10: a present origin with normalized hostname H is admitted whenever H
\* equals, or ends with "." followed by, the normalized hostname of some
\* entry of the extra list, even when H does not match the root domain.
C10_ExtraListAdmits ==
  \A r \in Reqs :
    (Decided(r) /\ ~Falsy(origin[r])
       /\ \E i \in DOMAIN extraAllowedOrigins :
            DomainMatch(hostFromOrigin(origin[r]),
                        hostFromOrigin(Present(extraAllowedOrigins[i])))) =>
      admitted[r] = "yes"

(***************************************************************************)
(* validatePayload called directly, once and again on what it left.        *)
(***************************************************************************)
MaxCalls == 2

\* a nested object whose JSON text has `chars` UTF-16 code units and `bytes`
\* bytes in UTF-8; the two differ when the text is not ASCII
ObjOfText(chars, bytes) == [t |-> "nested", size |-> chars, bytes |-> bytes]

\* the UTF-8 size of JSON.stringify(v)
UTF8Length(v) ==
  IF v.t = "nested" /\ "bytes" \in DOMAIN v THEN v.bytes ELSE JSONLength(v)

\* mappings beyond those the request bodies carry
ValidatorObjects ==
  { MkObject(Str("abc"), ObjOfSize(8193), TRUE, FALSE),
    MkObject(Str(""), ObjOfSize(8192), TRUE, TRUE),
    MkObject(Num(0), ObjOfSize(8193), FALSE, TRUE),
    MkObject(Undefined, ObjOfText(5000, 10000), TRUE, FALSE),
    MkObject(Undefined, ObjOfText(8000, 8192), TRUE, FALSE),
    MkObject(Undefined, ObjOfText(8193, 9000), TRUE, FALSE),
    MkObject(Undefined, Arr(0, {}), TRUE, FALSE),
    MkObject(Null, Bool(FALSE), FALSE, FALSE),
    Obj([k \in {"client_id", "hacked", "extra"} |-> Str("x")]),
    Obj([k \in {"hacked", "extra"} |-> Num(1)]),
    Obj([k \in {"session_id", "event_params", "event_type", "hacked", "extra"} |->
           CASE k = "session_id" -> Num(7)
             [] k = "event_params" -> ObjOfSize(40)
             [] OTHER -> Str("x")]) }

\* values that are not mappings
NonMappings ==
  { Undefined, Null, Str(""), Str("abc"), Num(0), Num(123), Bool(TRUE), Bool(FALSE) }
  \cup { Arr(n, 0..(n - 1)) : n \in 0..MaxArrayLen }

ValidatorInputs == JsonObjects \cup ValidatorObjects \cup NonMappings

InitValidator ==
  /\ variant \in Variants
  /\ allowedRootDomain = DefaultRootDomain
  /\ extraAllowedOrigins = <<>>
  /\ webhookUrlSet = TRUE
  /\ NoRequests
  /\ valArg \in ValidatorInputs
  /\ valObj = valArg
  /\ valErrs = <<>>
  /\ normArg = NoOrigin
  /\ normOuts = <<>>

\* const err = validatePayload(p), p being mutated in place
ValidateCall ==
  /\ Len(valErrs) < MaxCalls
  /\ LET v == validatePayload(valObj)
     IN  /\ valObj' = v.p
         /\ valErrs' = Append(valErrs, v.err)
  /\ UNCHANGED <<config, requestVars, valArg, normArg, normOuts>>

NextValidator == ValidateCall

ValidatorSpec == InitValidator /\ [][NextValidator]_vars

C12_SessionIdRule ==
  (Len(valErrs) >= 1 /\ valArg.t = "object" /\ "session_id" \in DOMAIN valArg.m) =>
    (valErrs[1] = "session_id must be number or empty" <=>
       (valArg.m["session_id"] # Str("") /\ valArg.m["session_id"].t # "number"))

\* a null session_id was rejected
C12_Witness ==
  /\ Len(valErrs) >= 1
  /\ valArg.t = "object"
  /\ "session_id" \in DOMAIN valArg.m
  /\ valArg.m["session_id"] = Null
  /\ valErrs[1] = "session_id must be number or empty"

\* C13: when the webhook URL is not configured, every invocation of the
\* forwarder fails at once without issuing a POST, and the request is
\* answered 502 with the generic forwarding-failure reason.
C13_NoUrlNoPost ==
  \A r \in Reqs :
    ~webhookUrlSet =>
      /\ posts[r] = <<>>
      /\ pc[r] \notin {"await1", "await2"}
      /\ res1[r] = Pending /\ res2[r] = Pending
      /\ (handled[r] /\ validated[r] # Undefined
            /\ validatePayload(validated[r]).err = NoError) =>
           /\ pc[r] = "done"
           /\ forwarded[r] = Raised
           /\ response[r] = Response(502, "Zapier forwarding failed", NoStatus)

\* a valid page_view with no webhook URL configured was answered 502
C13_Witness ==
  /\ ~webhookUrlSet
  /\ handled[1]
  /\ validated[1] = Obj(PageView)
  /\ forwarded[1] = Raised
  /\ response[1] = Response(502, "Zapier forwarding failed", NoStatus)

(***************************************************************************)
(* Several requests in flight at once: every await of one handler lets     *)
(* the steps of the other requests run.                                    *)
(***************************************************************************)
ConcurrentOrigins == { NoOrigin, Present(SchemeHttps \o EvilExampleCom) }

ConcurrentBodies == { Obj(PageView), MkObject(Num(5), Undefined, TRUE, TRUE) }

ConcurrentEvents ==
  { [kind |-> "response", status |-> 200, ms |-> 120],
    [kind |-> "response", status |-> 200, ms |-> 6000] }

InitConcurrent ==
  /\ variant \in Variants
  /\ allowedRootDomain = ExampleCom
  /\ extraAllowedOrigins = <<>>
  /\ webhookUrlSet = TRUE
  /\ NoRequests
  /\ NoCalls

\* the next step of request r
Step(r) ==
  \/ Receive(r, ConcurrentOrigins)
  \/ FirstCors(r)
  \/ BodyParsers(r, ConcurrentBodies)
  \/ Cors(r)
  \/ Collect(r)
  \/ FirstAttemptSettles(r, ConcurrentEvents)
  \/ RetrySettles(r, ConcurrentEvents)

NextConcurrent == \E r \in Reqs : Step(r)

\* any request may stay suspended for ever, except request 2, which the
\* event loop runs whenever it can take a step
ConcurrentSpec == InitConcurrent /\ [][NextConcurrent]_vars /\ WF_vars(Step(2))

\* the cors decision on request r, from its own origin and the configuration
OwnAdmission(r) ==
  /\ variant = "index" => corsFirst(origin[r], allowedRootDomain)
  /\ corsOrigin(variant, origin[r], allowedRootDomain, extraAllowedOrigins)

\* what the forwarder gives request r, from the outcomes of its own attempts
OwnForward(r) ==
  IF ~webhookUrlSet THEN Raised
  ELSE IF res1[r].status >= 200 /\ res1[r].status < 500 THEN Returned(res1[r].status)
  ELSE IF res2[r].status >= 200 /\ res2[r].status < 500 THEN Returned(res2[r].status)
  ELSE Raised

\* each request's payload, POSTs and response are what its own origin, body
\* and attempt outcomes give under the configuration
RequestsIndependent ==
  \A r \in Reqs :
    /\ pc[r] = "idle" =>
         /\ posts[r] = <<>> /\ response[r] = NoResponse /\ ~handled[r]
         /\ payload[r] = Undefined /\ reqBody[r] = Undefined
    /\ pc[r] = "blocked" => (~OwnAdmission(r) /\ response[r] = CorsError /\ posts[r] = <<>>)
    /\ handled[r] =>
         LET c == collect(variant, coerced[r])
         IN  /\ OwnAdmission(r)
             /\ payload[r] = c.payload
             /\ \A i \in DOMAIN posts[r] : posts[r][i] = c.payload
             /\ pc[r] = "done" =>
                  response[r] = IF c.forward THEN respondAfterForward(OwnForward(r)) ELSE c.resp

\* C14: in every interleaving of concurrent requests, each request's
\* response and the payloads it sends depend only on its own origin, body
\* and forward-attempt outcomes and on the configuration; and while request
\* 1 is suspended in a forward attempt, for however long, request 2 still
\* reaches its own response.
C14_RequestsIndependent ==
  /\ []RequestsIndependent
  /\ (pc[1] \in {"await1", "await2"}) ~> (pc[2] \in {"done", "blocked"})

\* request 1 is suspended in its retry while request 2, received later with
\* another body, has been answered 204
C14_Witness ==
  /\ pc[1] = "await2"
  /\ pc[2] = "done"
  /\ response[2] = Response(204, "", NoStatus)
  /\ Len(posts[1]) = 2 /\ Len(posts[2]) = 1
  /\ posts[1][2] # posts[2][1]

\* C15: for every input that is not a non-null structured mapping (null, a
\* string, a number, a boolean or an array), validatePayload returns
\* "invalid body".
C15_NonMappingInvalid ==
  (Len(valErrs) >= 1 /\ valArg.t # "object") => valErrs[1] = "invalid body"

\* C16: for every mapping that passes all validation checks, the mapping
\* after validatePayload is the input restricted to the allow-listed keys:
\* the other keys are gone, the allow-listed ones keep their values.
C16_PrunedToAllowList ==
  (Len(valErrs) >= 1 /\ valArg.t = "object" /\ valErrs[1] = NoError) =>
    /\ valObj.t = "object"
    /\ DOMAIN valObj.m = DOMAIN valArg.m \cap allowedTop
    /\ \A k \in DOMAIN valObj.m : valObj.m[k] = valArg.m[k]

\* a valid mapping with two keys outside the allow-list lost exactly those
C16_Witness ==
  /\ Len(valErrs) >= 1
  /\ valErrs[1] = NoError
  /\ valArg.t = "object"
  /\ DOMAIN valArg.m = {"session_id", "event_params", "event_type", "hacked", "extra"}
  /\ DOMAIN valObj.m = {"session_id", "event_params", "event_type"}

\* C17: on a mapping for which validatePayload returned no error, running
\* validatePayload again returns no error and leaves the mapping unchanged.
C17_ValidateIdempotent ==
  [][(valArg.t = "object" /\ Len(valErrs) >= 1 /\ valErrs[1] = NoError) =>
       (valObj' = valObj /\ valErrs' = Append(valErrs, NoError))]_vars

\* validatePayload ran twice on a mapping that had keys to remove
C17_Witness ==
  /\ Len(valErrs) = 2
  /\ valErrs = <<NoError, NoError>>
  /\ valArg.t = "object"
  /\ {"hacked", "extra"} \subseteq DOMAIN valArg.m
  /\ DOMAIN valObj.m = {"client_id"}

(***************************************************************************)
(* The origin normaliser called directly, once and again on its result:    *)
(* getHostnameFromOrigin in index.js, hostFromOrigin in part_000.          *)
(***************************************************************************)
MaxOriginLen == 3

OriginAlphabet == {"a", "B", ".", "/", ":", "?", "#", " "}

\* every string over the alphabet of at most MaxOriginLen characters
ShortStrings == UNION { [1..k -> OriginAlphabet] : k \in 0..MaxOriginLen }

NormPrefixes ==
  { <<>>, SchemeHttps, SchemeHttpsUpper, <<"h","t","t","p",":","/","/">>,
    SchemeHttps \o SchemeHttps, <<" ">> \o SchemeHttps }

NormInputs == {NoOrigin} \cup { Present(pre \o str) : pre \in NormPrefixes, str \in ShortStrings }

\* the file that has a normaliser, and the normaliser it has
NormVariants == {"index", "partA"}

normalizer(v, orig) ==
  IF v = "index" THEN getHostnameFromOrigin(orig) ELSE hostFromOrigin(orig)

InitNormalizer ==
  /\ variant \in NormVariants
  /\ allowedRootDomain = DefaultRootDomain
  /\ extraAllowedOrigins = <<>>
  /\ webhookUrlSet = TRUE
  /\ NoRequests
  /\ valArg = Undefined
  /\ valObj = Undefined
  /\ valErrs = <<>>
  /\ normArg \in NormInputs
  /\ normOuts = <<>>

\* normalise the argument, or the result of the call before
NormalizeCall ==
  /\ Len(normOuts) < MaxCalls
  /\ LET arg == IF normOuts = <<>> THEN normArg ELSE Present(normOuts[Len(normOuts)])
     IN  normOuts' = Append(normOuts, normalizer(variant, arg))
  /\ UNCHANGED <<config, requestVars, valArg, valObj, valErrs, normArg>>

NextNormalizer == NormalizeCall

NormalizerSpec == InitNormalizer /\ [][NextNormalizer]_vars

\* C18: normalising is idempotent: for every origin string s, also with
\* whitespace, repeated schemes or stray separators,
\* normalize(normalize(s)) = normalize(s).
C18_NormalizeIdempotent ==
  Len(normOuts) >= 2 => normOuts[2] = normOuts[1]

\* the part of s before the first c
Before(s, c) ==
  IF \E i \in DOMAIN s : s[i] = c
  THEN SubSeq(s, 1, (CHOOSE i \in DOMAIN s : s[i] = c /\ \A j \in 1..(i - 1) : s[j] # c) - 1)
  ELSE s

\* the reference computation of the normalised hostname
ReferenceHost(orig) ==
  IF ~orig.present \/ orig.s = <<>> THEN <<>>
  ELSE LET low  == ToLowerCase(Trim(orig.s))
           rest == IF StartsWith(low, <<"h","t","t","p",":","/","/">>) THEN Drop(low, 7)
                   ELSE IF StartsWith(low, <<"h","t","t","p","s",":","/","/">>) THEN Drop(low, 8)
                   ELSE low
       IN  Before(Before(Before(Before(rest, "/"), "?"), "#"), ":")

\* C19: for every origin string the normaliser's result equals the reference
\* computation: lowercase and trim, strip a leading http:// or https://, take
\* what precedes the first "/", then the first "?", "#" and ":"; an absent or
\* empty input gives the empty string.
C19_NormalizeMatchesReference ==
  Len(normOuts) >= 1 => normOuts[1] = ReferenceHost(normArg)

(***************************************************************************)
(* One request, with the handler run once it is reached and every attempt  *)
(* on the webhook settling: it answers, fails to connect, answers late, or *)
(* the 5 s timeout of the client fires.                                    *)
(***************************************************************************)
LiveOrigins == { NoOrigin, Present(SchemeHttps \o EvilExampleCom) }

LiveBodies ==
  { Obj(PageView), EmptyObject, Undefined, Arr(2, {0, 1}),
    MkObject(Str("abc"), Undefined, TRUE, FALSE),
    MkObject(Undefined, ObjOfSize(8193), TRUE, FALSE),
    Str("not json"), Str("{\"hacked\":1,\"client_id\":\"c1\"}"), Buf("123") }

InitLive ==
  /\ variant \in Variants
  /\ allowedRootDomain = DefaultRootDomain
  /\ extraAllowedOrigins = <<>>
  /\ webhookUrlSet \in BOOLEAN
  /\ NoRequests
  /\ NoCalls

NextLive ==
  \/ Receive(1, LiveOrigins)
  \/ FirstCors(1)
  \/ BodyParsers(1, BodiesOf(variant) \cap LiveBodies)
  \/ Cors(1)
  \/ Collect(1)
  \/ FirstAttemptSettles(1, Downstream)
  \/ RetrySettles(1, Downstream)

LiveSpec ==
  /\ InitLive
  /\ [][NextLive]_vars
  /\ WF_vars(Collect(1))
  /\ WF_vars(FirstAttemptSettles(1, Downstream))
  /\ WF_vars(RetrySettles(1, Downstream))

C21_EmptyEntryAdmitsNothing ==
  \A r \in Reqs :
    (Decided(r) /\ ~Falsy(origin[r]) /\ admitted[r] = "yes") =>
      \/ DomainMatch(hostFromOrigin(origin[r]), allowedRootDomain)
      \/ \E i \in DOMAIN extraAllowedOrigins :
           /\ hostFromOrigin(Present(extraAllowedOrigins[i])) # <<>>
           /\ DomainMatch(hostFromOrigin(origin[r]),
                          hostFromOrigin(Present(extraAllowedOrigins[i])))

====
